---- MODULE Spec2Model ----
(***************************************************************************)
(* Model of scripts/version_bumper.py: a command-line utility that scans   *)
(* one section of a TOML-like dependency file, asks a package registry for *)
(* the latest version of every dependency and rewrites the file in place.  *)
(*                                                                         *)
(* Text is modelled as a sequence of one-character strings, so that        *)
(* str.splitlines, str.join, str.strip, str.replace and the two regular    *)
(* expressions are computed character by character, as Python does.        *)
(***************************************************************************)
EXTENDS Integers, Sequences, FiniteSets, TLC

\* ------------------------------------------------------------------------
\* Bounds of the model
\* ------------------------------------------------------------------------
MaxLines == 3
MaxRuns == 2

\* ------------------------------------------------------------------------
\* Characters
\* ------------------------------------------------------------------------
Q == "\""
LF == "\n"
CR == "\r"

\* Python's \s, restricted to the characters that occur inside a line
WhiteSpace == {" ", "\t"}

\* the comparator characters of the class [\^\~\>\=\<\!] and of lstrip("^=!~<>")
OpChars == {"^", "~", ">", "=", "<", "!"}

\* [\d\.\-\w]
VersionChars ==
    {"0", "1", "2", "3", "4", "5", "6", "7", "8", "9", ".", "-", "_",
     "a", "b", "c", "d", "e", "f", "g", "h", "i", "j", "k", "l", "m",
     "n", "o", "p", "q", "r", "s", "t", "u", "v", "w", "x", "y", "z"}

\* Optional values: None is the empty sequence, Some(x) a one-element one
None == <<>>
Some(x) == <<x>>

MaxOf(S) == CHOOSE x \in S : \A y \in S : y <= x

\* ------------------------------------------------------------------------
\* String helpers (Python str methods)
\* ------------------------------------------------------------------------
\* s.startswith(prefix)
StartsWith(s, prefix) ==
    /\ Len(prefix) <= Len(s)
    /\ SubSeq(s, 1, Len(prefix)) = prefix

\* s.lstrip(chars)
RECURSIVE LStrip(_, _)
LStrip(s, chars) ==
    IF s # <<>> /\ Head(s) \in chars THEN LStrip(Tail(s), chars) ELSE s

\* s.rstrip(chars)
RECURSIVE RStrip(_, _)
RStrip(s, chars) ==
    IF s # <<>> /\ s[Len(s)] \in chars
    THEN RStrip(SubSeq(s, 1, Len(s) - 1), chars)
    ELSE s

\* s.strip(chars)
Strip(s, chars) == RStrip(LStrip(s, chars), chars)

\* text.splitlines(keepends=False): "\r\n", "\n" and "\r" end a line; a
\* terminator at the very end of the text does not open a further line.
RECURSIVE SplitFrom(_, _, _, _)
SplitFrom(t, i, cur, acc) ==
    IF i > Len(t)
    THEN IF cur # <<>> THEN Append(acc, cur) ELSE acc
    ELSE IF t[i] = CR /\ i + 1 <= Len(t) /\ t[i + 1] = LF
         THEN SplitFrom(t, i + 2, <<>>, Append(acc, cur))
         ELSE IF t[i] \in {LF, CR}
              THEN SplitFrom(t, i + 1, <<>>, Append(acc, cur))
              ELSE SplitFrom(t, i + 1, Append(cur, t[i]), acc)

SplitLines(t) == SplitFrom(t, 1, <<>>, <<>>)

\* sep.join(parts)
RECURSIVE Join(_, _)
Join(parts, sep) ==
    IF parts = <<>> THEN <<>>
    ELSE IF Len(parts) = 1 THEN parts[1]
         ELSE parts[1] \o sep \o Join(Tail(parts), sep)

\* s.replace(old, new, 1): the first occurrence of old only
RECURSIVE ReplaceFirst(_, _, _)
ReplaceFirst(s, old, new) ==
    IF Len(s) < Len(old) THEN s
    ELSE IF SubSeq(s, 1, Len(old)) = old
         THEN new \o SubSeq(s, Len(old) + 1, Len(s))
         ELSE <<Head(s)>> \o ReplaceFirst(Tail(s), old, new)

\* s.replace(old, new): every non-overlapping occurrence of old, scanning
\* from the left (old is never empty here)
RECURSIVE Replace(_, _, _)
Replace(s, old, new) ==
    IF Len(s) < Len(old) THEN s
    ELSE IF SubSeq(s, 1, Len(old)) = old
         THEN new \o Replace(SubSeq(s, Len(old) + 1, Len(s)), old, new)
         ELSE <<Head(s)>> \o Replace(Tail(s), old, new)

\* ------------------------------------------------------------------------
\* get_dependencies
\* ------------------------------------------------------------------------
PythonPin == <<"p", "y", "t", "h", "o", "n", " ", "=">>
TemplateMark == <<"{", "%">>

Header(section) == <<"[">> \o section \o <<"]">>

\* the loop of get_dependencies from line number i (one-based) on;
\* candidates carry the zero-based index of enumerate()
RECURSIVE DepsFrom(_, _, _, _, _)
DepsFrom(ls, section, i, recording, deps) ==
    IF i > Len(ls) THEN deps
    ELSE IF StartsWith(ls[i], <<"[">>) /\ Strip(ls[i], {"[", "]"}) # section
         THEN DepsFrom(ls, section, i + 1, FALSE, deps)
         ELSE IF ls[i] = Header(section)
              THEN DepsFrom(ls, section, i + 1, TRUE, deps)
              ELSE IF StartsWith(ls[i], PythonPin)
                   THEN DepsFrom(ls, section, i + 1, recording, deps)
                   ELSE IF StartsWith(ls[i], TemplateMark)
                        THEN DepsFrom(ls, section, i + 1, recording, deps)
                        ELSE IF recording
                             THEN DepsFrom(ls, section, i + 1, recording,
                                      Append(deps, [index |-> i - 1, line |-> ls[i]]))
                             ELSE DepsFrom(ls, section, i + 1, recording, deps)

get_dependencies(text, section) ==
    DepsFrom(SplitLines(text), section, 1, FALSE, <<>>)

\* ------------------------------------------------------------------------
\* The two regular expressions
\* ------------------------------------------------------------------------
\* the character at position i, or "" beyond the ends of the line
At(d, i) == IF i \in 1..Len(d) THEN d[i] ELSE ""

\* \s* from position i on: the first position that holds no white space
RECURSIVE SkipWS(_, _)
SkipWS(d, i) == IF At(d, i) \in WhiteSpace THEN SkipWS(d, i + 1) ELSE i

\* [\d\.\-\w]+ from position i on: the last position of the longest run,
\* i - 1 when the run is empty
RECURSIVE RunEnd(_, _)
RunEnd(d, i) == IF At(d, i) \in VersionChars THEN RunEnd(d, i + 1) ELSE i - 1

\* A match of the version group: positions vs..ve of the line; ve = 0
\* when there is no match
Span(vs, ve) == [ok |-> ve > 0, vs |-> vs, ve |-> ve]
NoSpan == [ok |-> FALSE, vs |-> 0, ve |-> 0]

\* (?P<version>[\^\~\>\=\<\!]?[\d\.\-\w]+) from position vs on: at most ONE
\* comparator character, then the longest run of version characters; the
\* last position of the group (the run may be empty: see QuotedEnd)
VersionGroupEnd(d, vs) == RunEnd(d, IF At(d, vs) \in OpChars THEN vs + 1 ELSE vs)

\* the quotes around a version group that ends at ve, the opening quote at
\* position o; the group must end in a version character
QuotedEnd(d, o, ve) ==
    IF /\ At(d, o) = Q
       /\ ve > o
       /\ At(d, ve) \in VersionChars
       /\ At(d, ve + 1) = Q
    THEN ve
    ELSE 0

\* \"(?P<version>...)\" with the opening quote at position o: the last
\* position of the version group, 0 when there is no match
QuotedVersion(d, o) == QuotedEnd(d, o, VersionGroupEnd(d, o + 1))

\* \"version\" at position o, after \s*=\s*
RawQuote(d, o) == Span(o + 1, QuotedVersion(d, o))

\* =\s*\"version\" with the "=" expected at position j
RawAfterEq(d, j) == IF At(d, j) = "=" THEN RawQuote(d, SkipWS(d, j + 1)) ELSE NoSpan

\* \s*=\s*\"version\" after a package group that ends at position a
RawTail(d, a) == RawAfterEq(d, SkipWS(d, a + 1))

VersionWord == <<"v", "e", "r", "s", "i", "o", "n">>

\* (.*)\} after the closing quote of a version group vs..ve: some "}" follows
ExpClose(d, vs, ve) ==
    IF ve > 0 /\ \E c \in (ve + 2)..Len(d) : d[c] = "}" THEN Span(vs, ve) ELSE NoSpan

\* \"version\"(.*)\} with the opening quote expected at position o
ExpQuote(d, o) == ExpClose(d, o + 1, QuotedVersion(d, o))

\* =\s*\"version\"(.*)\} with the "=" expected at position m
ExpAfterKey(d, m) == IF At(d, m) = "=" THEN ExpQuote(d, SkipWS(d, m + 1)) ELSE NoSpan

\* version\s*=\s*\"version\"(.*)\} after a second group that ends at b
ExpInner(d, b) ==
    IF b + 7 <= Len(d) /\ SubSeq(d, b + 1, b + 7) = VersionWord
    THEN ExpAfterKey(d, SkipWS(d, b + 8))
    ELSE NoSpan

\* the second group (.*) is greedy: the longest one that lets the rest match
ExpGreedy(d, ends) == IF ends = {} THEN NoSpan ELSE ExpInner(d, MaxOf(ends))

\* \{(.*)version ... with the "{" expected at position o
ExpBrace(d, o) ==
    IF At(d, o) = "{"
    THEN ExpGreedy(d, {b \in o..Len(d) : ExpInner(d, b).ok})
    ELSE NoSpan

\* =\s*\{(.*)version ... with the "=" expected at position j
ExpAfterEq(d, j) == IF At(d, j) = "=" THEN ExpBrace(d, SkipWS(d, j + 1)) ELSE NoSpan

\* \s*=\s*\{(.*)version ... after a package group that ends at position a
ExpTail(d, a) == ExpAfterEq(d, SkipWS(d, a + 1))

NoMatch == [ok |-> FALSE, package |-> <<>>, version |-> <<>>]

\* the groups of a match: the package group is d[1..a], the version group t
Groups(d, a, t) ==
    [ok |-> TRUE, package |-> SubSeq(d, 1, a), version |-> SubSeq(d, t.vs, t.ve)]

\* the package group (.*) is greedy: the longest one that lets the rest match
RawGreedy(d, starts) ==
    IF starts = {} THEN NoMatch ELSE Groups(d, MaxOf(starts), RawTail(d, MaxOf(starts)))

ExpandedGreedy(d, starts) ==
    IF starts = {} THEN NoMatch ELSE Groups(d, MaxOf(starts), ExpTail(d, MaxOf(starts)))

\* RAW_VERSION_RE.match(d)
RAW_VERSION_RE(d) == RawGreedy(d, {a \in 0..Len(d) : RawTail(d, a).ok})

\* EXPANDED_VER_RE.match(d)
EXPANDED_VER_RE(d) == ExpandedGreedy(d, {a \in 0..Len(d) : ExpTail(d, a).ok})

\* group("package").strip() and group("version").lstrip("^=!~<>")
Declared(shape, match) ==
    [shape |-> shape,
     package |-> Strip(match.package, WhiteSpace),
     version |-> LStrip(match.version, OpChars)]

NotDeclared == [shape |-> "none", package |-> <<>>, version |-> <<>>]

\* lines 133-144 of bump_version, given the matches of the two expressions:
\* the expanded shape first, the raw shape only when it does not match
ParseMatches(exp_match, raw_match) ==
    IF exp_match.ok THEN Declared("expanded", exp_match)
    ELSE IF raw_match.ok THEN Declared("raw", raw_match)
         ELSE NotDeclared

ParseDependency(d) == ParseMatches(EXPANDED_VER_RE(d), RAW_VERSION_RE(d))

\* ------------------------------------------------------------------------
\* Registry client
\* ------------------------------------------------------------------------
\* What one GET can come to: a success response whose JSON body holds
\* info.version, a non-success status, an exception raised by the HTTP
\* client, a success response whose body is not JSON, or one whose JSON has
\* no info/version.
VersionPool == {<<"1">>, <<"2">>}

Responses ==
    {[kind |-> "ok", version |-> v] : v \in VersionPool}
    \cup {[kind |-> x, version |-> <<>>] :
             x \in {"http_error", "network_error", "not_json", "no_version"}}

\* get_new_version on the response the registry gives: only a non-success
\* status is turned into None; requests.get, resp.json() and the two
\* subscripts raise and nothing catches them
get_new_version(resp) ==
    IF resp.kind = "network_error"
    THEN [raised |-> TRUE, value |-> None]
    ELSE IF resp.kind = "http_error"
         THEN [raised |-> FALSE, value |-> None]
         ELSE IF resp.kind \in {"not_json", "no_version"}
              THEN [raised |-> TRUE, value |-> None]
              ELSE [raised |-> FALSE, value |-> Some(resp.version)]

\* ------------------------------------------------------------------------
\* bump_version
\* ------------------------------------------------------------------------
Checking(package) == [notice |-> "Checking", text |-> package]
FoundNew(version) == [notice |-> "Found new version", text |-> version]

\* what a call of bump_version comes to
Outcome(p, looked_up, raised, ret, printed) ==
    [parsed |-> p, looked_up |-> looked_up, raised |-> raised, ret |-> ret,
     printed |-> printed]

\* lines 148-152 without the comparison version != new_version
bump_lookup_noeq(dependency, p, nv) ==
    IF nv.raised
    THEN Outcome(p, TRUE, TRUE, None, <<Checking(p.package)>>)
    ELSE IF nv.value # None
         THEN Outcome(p, TRUE, FALSE,
                      Some(Replace(dependency, p.version, nv.value[1])),
                      <<Checking(p.package), FoundNew(nv.value[1])>>)
         ELSE Outcome(p, TRUE, FALSE, None, <<Checking(p.package)>>)

\* lines 146-152: the line parsed as p, nv what get_new_version came to
bump_lookup(dependency, p, nv) ==
    IF nv.raised
    THEN Outcome(p, TRUE, TRUE, None, <<Checking(p.package)>>)
    ELSE IF nv.value # None /\ p.version # nv.value[1]
         THEN Outcome(p, TRUE, FALSE,
                      Some(Replace(dependency, p.version, nv.value[1])),
                      <<Checking(p.package), FoundNew(nv.value[1])>>)
         ELSE Outcome(p, TRUE, FALSE, None, <<Checking(p.package)>>)

\* lines 143-152, the line parsed as p
bump_parsed(dependency, p, resp) ==
    IF p.shape = "none"
    THEN Outcome(p, FALSE, FALSE, None, <<>>)
    ELSE bump_lookup(dependency, p, get_new_version(resp))

bump_version(dependency, resp) ==
    bump_parsed(dependency, ParseDependency(dependency), resp)

\* ------------------------------------------------------------------------
\* Input files
\* ------------------------------------------------------------------------
SectionArg == <<"s">>

HdrS == <<"[", "s", "]">>
HdrT == <<"[", "t", "]">>
HdrSS == <<"[", "[", "s", "]", "]">>
Blank == <<>>
\* p1 = "1"
DepP1 == <<"p", "1", " ", "=", " ", Q, "1", Q>>
\* q=">=1"
DepGe == <<"q", "=", Q, ">", "=", "1", Q>>
\* q={version="^1",x="1"}
DepExp == <<"q", "=", "{", "v", "e", "r", "s", "i", "o", "n", "=", Q, "^", "1", Q,
            ",", "x", "=", Q, "1", Q, "}">>
\* q = "^1"
DepCaret == <<"q", " ", "=", " ", Q, "^", "1", Q>>
\* python ="3"
PyPin == <<"p", "y", "t", "h", "o", "n", " ", "=", Q, "3", Q>>
\* {%
Tmpl == <<"{", "%">>

LinePool == {HdrS, HdrT, HdrSS, Blank, DepP1, DepGe, DepCaret, DepExp, PyPin, Tmpl}

\* line terminator styles: "\n" or "\r\n", with and without a terminator
\* after the last line
EndOfLine == {[eol |-> e, final |-> f] : e \in {<<LF>>, <<CR, LF>>}, f \in BOOLEAN}

\* the texts a file can hold: up to MaxLines lines of the pool in one
\* terminator style
InputTexts ==
    {Join(ls, e.eol) \o (IF e.final THEN e.eol ELSE <<>>) :
        <<ls, e>> \in (UNION {[1..n -> LinePool] : n \in 0..MaxLines}) \X EndOfLine}

\* ------------------------------------------------------------------------
\* State
\* ------------------------------------------------------------------------
VARIABLES
    disk,       \* the text of the target file on disk
    registry,   \* package name -> response, for the packages asked so far
    pc,         \* position of main: "start", "loop", "done", "crashed"
    run,        \* number of the current run of main
    read,       \* the text main read at the start of the current run
    deps,       \* the candidates returned by get_dependencies
    lines,      \* the in-memory line list of main
    k,          \* position of the for loop in deps (one-based)
    last,       \* what the last call of bump_version did
    changed,    \* zero-based indices of the lines overwritten in this run
    out,        \* standard output of the current run
    lookups,    \* zero-based line indices of the lookups of the current run
    writes      \* number of write_text calls of the current run

vars ==
    <<disk, registry, pc, run, read, deps, lines, k, last, changed, out, lookups, writes>>

NoBump ==
    [called |-> FALSE, index |-> 0, dependency |-> <<>>, before |-> <<>>,
     parsed |-> [shape |-> "none", package |-> <<>>, version |-> <<>>],
     resp |-> None, looked_up |-> FALSE, raised |-> FALSE, ret |-> None,
     printed |-> <<>>]

Init ==
    /\ disk \in InputTexts
    /\ registry = <<>>
    /\ pc = "start"
    /\ run = 1
    /\ read = <<>>
    /\ deps = <<>>
    /\ lines = <<>>
    /\ k = 1
    /\ last = NoBump
    /\ changed = {}
    /\ out = <<>>
    /\ lookups = <<>>
    /\ writes = 0

\* ------------------------------------------------------------------------
\* main
\* ------------------------------------------------------------------------
\* lines 165-167: the file is read, the candidates are extracted and the
\* text is split into the in-memory line list
main_read ==
    /\ pc = "start"
    /\ read' = disk
    /\ deps' = get_dependencies(disk, SectionArg)
    /\ lines' = SplitLines(disk)
    /\ k' = 1
    /\ pc' = "loop"
    /\ UNCHANGED <<disk, registry, run, last, changed, out, lookups, writes>>

\* the answer of the registry for a package: any response the first time a
\* package is asked for, the same response ever after
Answers(package) ==
    IF package \in DOMAIN registry THEN {registry[package]} ELSE Responses

\* lines 168-171: one iteration of the for loop; an exception raised inside
\* bump_version ends the process
main_bump ==
    /\ pc = "loop"
    /\ k <= Len(deps)
    /\ \E package \in {ParseDependency(deps[k].line).package} :
       LET i == deps[k].index
           dep == deps[k].line
       IN  \E resp \in Answers(package) : \E r \in {bump_version(dep, resp)} :
             LET new_version == r.ret
                 truthy == new_version # None /\ new_version[1] # <<>>
             IN  /\ registry' = IF r.looked_up
                                THEN (package :> resp) @@ registry
                                ELSE registry
                 /\ out' = out \o r.printed
                 /\ lookups' = IF r.looked_up THEN Append(lookups, i) ELSE lookups
                 /\ last' = [called |-> TRUE, index |-> i, dependency |-> dep,
                             before |-> lines[i + 1], parsed |-> r.parsed,
                             resp |-> IF r.looked_up THEN Some(resp) ELSE None,
                             looked_up |-> r.looked_up, raised |-> r.raised,
                             ret |-> r.ret, printed |-> r.printed]
                 /\ IF r.raised
                    THEN /\ pc' = "crashed"
                         /\ UNCHANGED <<lines, k, changed>>
                    ELSE /\ pc' = "loop"
                         /\ k' = k + 1
                         /\ lines' = IF truthy
                                     THEN [lines EXCEPT ![i + 1] = new_version[1]]
                                     ELSE lines
                         /\ changed' = IF truthy THEN changed \cup {i} ELSE changed
    /\ UNCHANGED <<disk, run, read, deps, writes>>

\* line 172 guarded by "some line changed"
main_write_if_changed ==
    /\ pc = "loop"
    /\ k > Len(deps)
    /\ disk' = IF changed # {} THEN Join(lines, <<LF>>) ELSE disk
    /\ writes' = IF changed # {} THEN writes + 1 ELSE writes
    /\ pc' = "done"
    /\ UNCHANGED <<registry, run, read, deps, lines, k, last, changed, out, lookups>>

\* line 172: the whole line list is written back, joined by "\n"
main_write ==
    /\ pc = "loop"
    /\ k > Len(deps)
    /\ disk' = Join(lines, <<LF>>)
    /\ writes' = writes + 1
    /\ pc' = "done"
    /\ UNCHANGED <<registry, run, read, deps, lines, k, last, changed, out, lookups>>

\* the utility is started again on the same file, the registry unchanged
main_again ==
    /\ pc = "done"
    /\ run < MaxRuns
    /\ run' = run + 1
    /\ pc' = "start"
    /\ read' = <<>>
    /\ deps' = <<>>
    /\ lines' = <<>>
    /\ k' = 1
    /\ last' = NoBump
    /\ changed' = {}
    /\ out' = <<>>
    /\ lookups' = <<>>
    /\ writes' = 0
    /\ UNCHANGED <<disk, registry>>

Next == main_read \/ main_bump \/ main_write \/ main_again

Spec == Init /\ [][Next]_vars

\* ------------------------------------------------------------------------
\* Properties
\* ------------------------------------------------------------------------
Parsed(d) == ParseDependency(d).shape # "none"

Indices(ds) == {ds[x].index : x \in 1..Len(ds)}

\* the notices of the last call that announce a new version
FoundNotices == {x \in 1..Len(last.printed) : last.printed[x].notice = "Found new version"}

\* C1: for a candidate that parses as a dependency (package p, version v),
\* bump_version returns an updated line exactly when the lookup succeeded
\* with a version string different from v; otherwise it returns None, the
\* line stays as it was, in memory and in the file written, and no "Found
\* new version" notice is printed; the notice is printed exactly when an
\* updated line is returned.
C1_UpdateIffDifferent ==
    /\ (last.called /\ last.parsed.shape # "none" /\ ~last.raised) =>
          LET differs == /\ last.resp[1].kind = "ok"
                         /\ last.resp[1].version # last.parsed.version
          IN  /\ (last.ret # None) <=> differs
              /\ (FoundNotices # {}) <=> (last.ret # None)
              /\ last.ret = None => lines[last.index + 1] = last.before
    /\ (last.called /\ last.parsed.shape = "none") => FoundNotices = {}
    /\ pc = "done" =>
          \A x \in 1..Len(deps) :
              (Parsed(deps[x].line) /\ deps[x].index \notin changed) =>
                  SplitLines(disk)[deps[x].index + 1] = deps[x].line

\* an updated line was returned, announced and written to the file
C1_Witness ==
    /\ pc = "done"
    /\ last.called
    /\ last.ret # None
    /\ FoundNotices # {}
    /\ \E x \in 1..Len(deps) : Parsed(deps[x].line) /\ deps[x].index \notin changed

\* old.split(sep)
RECURSIVE SplitOn(_, _, _)
SplitOn(s, sep, cur) ==
    IF Len(s) < Len(sep) THEN <<cur \o s>>
    ELSE IF SubSeq(s, 1, Len(sep)) = sep
         THEN <<cur>> \o SplitOn(SubSeq(s, Len(sep) + 1, Len(s)), sep, <<>>)
         ELSE SplitOn(Tail(s), sep, Append(cur, Head(s)))

C3_LookupFailureNotFatal ==
    (last.called /\ last.looked_up /\ last.resp[1].kind # "ok") =>
        /\ ~last.raised
        /\ pc # "crashed"
        /\ last.ret = None
        /\ lines[last.index + 1] = last.before

\* C4: a completed run writes a file with as many lines as the file read,
\* and every line that is not a candidate is the line read at that index
C4_FramePreserved ==
    pc = "done" =>
        /\ Len(SplitLines(disk)) = Len(SplitLines(read))
        /\ \A i \in 1..Len(SplitLines(read)) :
               (i - 1) \notin Indices(deps) => SplitLines(disk)[i] = SplitLines(read)[i]

\* a line that starts with "[" and ends with "]"
BracketEnclosed(l) == Len(l) >= 2 /\ l[1] = "[" /\ l[Len(l)] = "]"

\* C5: every candidate lies strictly within the target section: an earlier
\* line is exactly [section] and no other bracket-enclosed line lies between
\* that line and the candidate; a file without the section has no candidates
C5_SectionIsolation ==
    pc # "start" =>
        LET ls == SplitLines(read)
            hdr == Header(SectionArg)
        IN  /\ \A x \in 1..Len(deps) :
                  \E j \in 1..deps[x].index :
                      /\ ls[j] = hdr
                      /\ \A m \in (j + 1)..deps[x].index :
                             ~(BracketEnclosed(ls[m]) /\ ls[m] # hdr)
            /\ (\A j \in 1..Len(ls) : ls[j] # hdr) => deps = <<>>

\* C6: no candidate is a bracket-enclosed header line, a python pin, a
\* templating directive or an empty line, and the candidates are in file
\* order
C6_NoStructuralCandidates ==
    pc # "start" =>
        /\ \A x \in 1..Len(deps) :
              /\ ~BracketEnclosed(deps[x].line)
              /\ ~StartsWith(deps[x].line, PythonPin)
              /\ ~StartsWith(deps[x].line, TemplateMark)
              /\ deps[x].line # <<>>
        /\ \A x \in 1..(Len(deps) - 1) : deps[x].index < deps[x + 1].index

\* C7: with the registry fixed, a second run leaves the file as the first
\* run left it and returns no updated line
C7_Idempotent ==
    (run = 2 /\ pc = "done") => (disk = read /\ changed = {})

\* every line terminator replaced by a single "\n"
RECURSIVE Normalise(_)
Normalise(t) ==
    IF t = <<>> THEN <<>>
    ELSE IF Len(t) >= 2 /\ t[1] = CR /\ t[2] = LF
         THEN <<LF>> \o Normalise(SubSeq(t, 3, Len(t)))
         ELSE IF t[1] = CR
              THEN <<LF>> \o Normalise(Tail(t))
              ELSE <<t[1]>> \o Normalise(Tail(t))

\* C8: a file with no candidate line in the target section is written back
\* as it was read, but for the line terminators, each a single "\n"; no
\* line and no final terminator is added or removed
C8_RoundTrip ==
    (pc = "done" /\ deps = <<>>) => disk = Normalise(read)

\* zero or more comparator characters from position i on
RECURSIVE SkipOps(_, _)
SkipOps(d, i) == IF At(d, i) \in OpChars THEN SkipOps(d, i + 1) ELSE i

\* "<op><version>" with the opening quote at position o and any number
\* of comparator characters: the bare version, if the shape is there
QuotedAnyOps(d, o) ==
    LET b == SkipOps(d, o + 1)
        e == RunEnd(d, b)
    IN  IF At(d, o) = Q /\ e >= b /\ At(d, e + 1) = Q
        THEN {[version |-> SubSeq(d, b, e), next |-> e + 2]}
        ELSE {}

\* the first "=" of the line
FirstEq(d) == {j \in 1..Len(d) : d[j] = "=" /\ \A h \in 1..(j - 1) : d[h] # "="}

PackageBefore(d, j) == Strip(SubSeq(d, 1, j - 1), WhiteSpace)

\* <package> = "<op><version>"
RawShape(d) ==
    UNION {{[package |-> PackageBefore(d, j), version |-> v.version] :
               v \in {w \in QuotedAnyOps(d, SkipWS(d, j + 1)) : w.next = Len(d) + 1}} :
           j \in FirstEq(d)}

\* the positions before a version key inside the braces that open at j
VersionKeys(d, j) ==
    {b \in j..(Len(d) - 7) :
        SubSeq(d, b + 1, b + 7) = VersionWord /\ At(d, SkipWS(d, b + 8)) = "="}

\* <package> = { ... version = "<op><version>" ... }
ExpandedShape(d) ==
    UNION {{[package |-> PackageBefore(d, j), version |-> v.version] :
               v \in UNION {QuotedAnyOps(d, SkipWS(d, SkipWS(d, b + 8) + 1)) :
                               b \in VersionKeys(d, SkipWS(d, j + 1))}} :
           j \in {h \in FirstEq(d) : At(d, SkipWS(d, h + 1)) = "{" /\ d[Len(d)] = "}"}}

\* C9: a line of the raw or of the expanded shape, with any number of
\* comparator characters before the version, is recognised: the registry is
\* asked for the trimmed package name and the declared version is the
\* version string without its comparator characters; a line of neither
\* shape yields None without a lookup
C9_ShapesRecognised ==
    last.called =>
        LET shapes == ExpandedShape(last.dependency) \cup RawShape(last.dependency)
        IN  /\ \A c \in shapes :
                  /\ last.parsed.shape # "none"
                  /\ last.looked_up
                  /\ last.parsed.package = c.package
                  /\ last.parsed.version = c.version
            /\ shapes = {} => (~last.looked_up /\ last.ret = None /\ ~last.raised)

\* C10: the file is written at most once in a run, and only after every
\* candidate was bumped; the lookups are issued in increasing line order;
\* a run that comes to its end has written the file, whether or not a line
\* changed; until then, and when the run is aborted, the file on disk is
\* the text that was read
C10_WriteOnceAtEnd ==
    /\ writes <= 1
    /\ writes = 1 => (pc = "done" /\ k = Len(deps) + 1)
    /\ pc = "done" => (writes = 1 /\ disk = Join(lines, <<LF>>))
    /\ pc \in {"loop", "crashed"} => (writes = 0 /\ disk = read)
    /\ \A a \in 1..Len(lookups) : \A b \in 1..Len(lookups) :
           a < b => lookups[a] < lookups[b]
    /\ \A a \in 1..Len(lookups) :
           \E x \in 1..Len(deps) : x <= k /\ deps[x].index = lookups[a]

\* a run that asked the registry twice, changed no line and wrote the file
C10_Witness ==
    /\ pc = "done"
    /\ writes = 1
    /\ changed = {}
    /\ Len(lookups) >= 2

====
